---- MODULE Spec2Model ----
(***************************************************************************)
(* CloudTrail ingestion-and-integrity pipeline (phase 1).                  *)
(*                                                                         *)
(* Strings are sequences of tokens.  Every token stands for a run of       *)
(* characters that no string operation of the program splits: "/" is the   *)
(* path separator, ".." the parent segment, ".json" and ".gz" the two      *)
(* extensions, every other token a name without "." or "/".  A substring   *)
(* test, a suffix test or a replacement on the characters is then the same *)
(* test or replacement on the tokens.                                      *)
(*                                                                         *)
(* A path (pathlib.Path) is a record [abs, parts]: whether it is anchored  *)
(* at "/" and its segments, each segment a string without "/".  The local  *)
(* filesystem has no symbolic links, and every directory is writable.      *)
(***************************************************************************)
EXTENDS Integers, Sequences, FiniteSets, TLC

(***************************************************************************)
(* Bounds of the model.                                                    *)
(***************************************************************************)
MaxObjects == 2
MaxStale == 1
MaxCalls == 1
MaxSize == 1

(***************************************************************************)
(* str operations.                                                         *)
(***************************************************************************)
StartsWith(s, pre) ==
    /\ Len(s) >= Len(pre)
    /\ SubSeq(s, 1, Len(pre)) = pre

EndsWith(s, suf) ==
    /\ Len(s) >= Len(suf)
    /\ SubSeq(s, Len(s) - Len(suf) + 1, Len(s)) = suf

Contains(s, sub) ==
    \E i \in 1..(Len(s) - Len(sub) + 1) : SubSeq(s, i, i + Len(sub) - 1) = sub

RECURSIVE Replace(_, _, _)
Replace(s, old, new) ==
    IF s = <<>> THEN <<>>
    ELSE IF StartsWith(s, old)
         THEN new \o Replace(SubSeq(s, Len(old) + 1, Len(s)), old, new)
         ELSE <<Head(s)>> \o Replace(Tail(s), old, new)

(***************************************************************************)
(* pathlib operations.                                                     *)
(***************************************************************************)
SEP == "/"
DOTDOT == <<"..">>

MkPath(a, ps) == [abs |-> a, parts |-> ps]

RECURSIVE SplitParts(_, _)
SplitParts(s, cur) ==
    IF s = <<>> THEN (IF cur = <<>> THEN <<>> ELSE <<cur>>)
    ELSE IF Head(s) = SEP
         THEN (IF cur = <<>> THEN <<>> ELSE <<cur>>) \o SplitParts(Tail(s), <<>>)
         ELSE SplitParts(Tail(s), cur \o <<Head(s)>>)

PathOf(s) == MkPath(s # <<>> /\ Head(s) = SEP, SplitParts(s, <<>>))

RECURSIVE JoinParts(_)
JoinParts(ps) ==
    IF ps = <<>> THEN <<>>
    ELSE IF Len(ps) = 1 THEN ps[1]
         ELSE ps[1] \o <<SEP>> \o JoinParts(Tail(ps))

Str(p) ==
    IF p.abs THEN <<SEP>> \o JoinParts(p.parts)
    ELSE IF p.parts = <<>> THEN <<".">> ELSE JoinParts(p.parts)

Parent(p) ==
    IF p.parts = <<>> THEN p
    ELSE MkPath(p.abs, SubSeq(p.parts, 1, Len(p.parts) - 1))

Name(p) == IF p.parts = <<>> THEN <<>> ELSE p.parts[Len(p.parts)]

Join(p, q) == IF q.abs THEN q ELSE MkPath(p.abs, p.parts \o q.parts)

CWD == MkPath(TRUE, <<<<"work">>>>)

RECURSIVE Collapse(_, _)
Collapse(ps, acc) ==
    IF ps = <<>> THEN acc
    ELSE IF Head(ps) = DOTDOT
         THEN Collapse(Tail(ps), IF acc = <<>> THEN <<>> ELSE SubSeq(acc, 1, Len(acc) - 1))
         ELSE Collapse(Tail(ps), acc \o <<Head(ps)>>)

Resolve(p) ==
    MkPath(TRUE, Collapse(IF p.abs THEN p.parts ELSE CWD.parts \o p.parts, <<>>))

IsRelativeTo(t, b) ==
    /\ t.abs = b.abs
    /\ Len(t.parts) >= Len(b.parts)
    /\ SubSeq(t.parts, 1, Len(b.parts)) = b.parts

RelativeTo(t, b) == MkPath(FALSE, SubSeq(t.parts, Len(b.parts) + 1, Len(t.parts)))

WithSuffix(p, suffix) ==
    LET n == Name(p)
        stem == IF Len(n) > 1 /\ n[Len(n)] \in {".json", ".gz"}
                THEN SubSeq(n, 1, Len(n) - 1) ELSE n
    IN  MkPath(p.abs, SubSeq(p.parts, 1, Len(p.parts) - 1) \o <<stem \o <<suffix>>>>)

(***************************************************************************)
(* Configuration and the local layout.                                     *)
(***************************************************************************)
LocalBase == MkPath(TRUE, <<<<"data">>>>)
RawPath == Join(LocalBase, MkPath(FALSE, <<<<"raw">>>>))
ProcessedPath == Join(LocalBase, MkPath(FALSE, <<<<"processed">>>>))
DefaultMaxRetries == 3

(***************************************************************************)
(* The object store: keys, listed sizes, archive contents.                 *)
(***************************************************************************)
KeyA == <<"a", ".json", ".gz">>
KeyD == <<"d", ".gz", SEP, "x", ".gz">>
KeyJ == <<"d", ".json", SEP, "x", ".gz">>
KeyUniverse == {KeyA, KeyD, KeyJ}

JsonDocs == {"unparseable", "scalar", "array", "dict_no_records", "dict_records_scalar",
             "dict_records_empty", "dict_records_list"}
ArchiveDocs == {"array", "dict_records_list"}

Parses(doc) == doc # "unparseable"
IsDict(doc) ==
    doc \in {"dict_no_records", "dict_records_scalar", "dict_records_empty", "dict_records_list"}
HasRecords(doc) == doc \in {"dict_records_scalar", "dict_records_empty", "dict_records_list"}

\* Variant: any value of 'Records' is accepted.
RecordsAny(doc) == TRUE

RecordsIsList(doc) == doc \in {"dict_records_empty", "dict_records_list"}

\* A regular file: its size in bytes, whether its bytes are a complete gzip
\* stream, and the document its text (the decompressed text, for an archive) is.
FileOf(sz, isgz, d) == [size |-> sz, gz |-> isgz, doc |-> d]
EmptyFile == FileOf(0, TRUE, "unparseable")
TextFile(d) == IF d = "unparseable" THEN EmptyFile ELSE FileOf(1, FALSE, d)

Descriptor(k) == [key |-> k, size |-> MaxSize, etag |-> "etag"]

RECURSIVE DistinctSeqs(_, _)
DistinctSeqs(S, n) ==
    IF n = 0 THEN {<<>>}
    ELSE LET shorter == DistinctSeqs(S, n - 1)
         IN  shorter \cup
             {Append(q, x) : <<q, x>> \in
                 {<<q, x>> \in shorter \X S :
                     /\ Len(q) = n - 1
                     /\ \A i \in 1..Len(q) : q[i] # x}}

Listings == {[i \in 1..Len(q) |-> Descriptor(q[i])] : q \in DistinctSeqs(KeyUniverse, MaxObjects)}

(***************************************************************************)
(* The local filesystem: files maps the resolved path of every regular     *)
(* file to its content, dirs is the set of directories.                    *)
(***************************************************************************)
Root == MkPath(TRUE, <<>>)

Prefixes(p) == {MkPath(p.abs, SubSeq(p.parts, 1, i)) : i \in 0..Len(p.parts)}

\* Path.mkdir(parents=True, exist_ok=True): every lexical prefix is created.
Mkdir(ds, p) == ds \cup {Resolve(q) : q \in Prefixes(p)}

Exists(fs, p) == Resolve(p) \in DOMAIN fs.files \/ Resolve(p) \in fs.dirs

WriteFile(fl, p, c) == (p :> c) @@ fl

DANGEROUS == {"etc", "usr", "bin", "sbin", "root"}
Dangerous(s) == \E d \in DANGEROUS : Contains(s, <<SEP, d, SEP>>)

(***************************************************************************)
(* S3CloudTrailReader.download_file.  fails is the number of fetch         *)
(* attempts the transport fails before one succeeds; content is what a     *)
(* successful fetch leaves at the destination (a failed fetch leaves the   *)
(* destination as it was).  The result is the returned value, the number   *)
(* of fetch attempts made, whether the path check rejected the path, and   *)
(* the filesystem after the call.                                          *)
(***************************************************************************)
DownloadPathRejected(local_path) == Dangerous(Str(Resolve(local_path)))

\* Variant: the parent directory is made before the path is checked.
download_file_mkdir_first(fs, s3_key, local_path, max_retries, fails, content) ==
    LET resolved_path == Resolve(local_path)
        made == Mkdir(fs.dirs, Parent(resolved_path))
    IN  IF DownloadPathRejected(local_path)
        THEN [ret |-> FALSE, attempts |-> 0, rejected |-> TRUE,
              files |-> fs.files, dirs |-> made]
        ELSE IF fails < max_retries
        THEN [ret |-> TRUE, attempts |-> fails + 1, rejected |-> FALSE,
              files |-> WriteFile(fs.files, resolved_path, content),
              dirs |-> made]
        ELSE [ret |-> FALSE, attempts |-> max_retries, rejected |-> FALSE,
              files |-> fs.files, dirs |-> made]

download_file(fs, s3_key, local_path, max_retries, fails, content) ==
    LET resolved_path == Resolve(local_path)
    IN  IF DownloadPathRejected(local_path)
        THEN [ret |-> FALSE, attempts |-> 0, rejected |-> TRUE,
              files |-> fs.files, dirs |-> fs.dirs]
        ELSE LET made == Mkdir(fs.dirs, Parent(resolved_path))
             IN  IF fails < max_retries
                 THEN [ret |-> TRUE, attempts |-> fails + 1, rejected |-> FALSE,
                       files |-> WriteFile(fs.files, resolved_path, content),
                       dirs |-> made]
                 ELSE [ret |-> FALSE, attempts |-> max_retries, rejected |-> FALSE,
                       files |-> fs.files, dirs |-> made]

(***************************************************************************)
(* S3CloudTrailReader.validate_download.  hash_fails: the digest           *)
(* computation raises.                                                     *)
(***************************************************************************)
\* Variant: only a file shorter than listed is refused.
SizeMismatchShort(actual_size, expected_size) == actual_size < expected_size

SizeMismatch(actual_size, expected_size) == actual_size # expected_size

\* st_size of a directory: what the file system reports for it.
DirSize == MaxSize

\* local_path.stat().st_size of a path that exists.
StatSize(fs, p) ==
    IF Resolve(p) \in DOMAIN fs.files THEN fs.files[Resolve(p)].size ELSE DirSize

\* Variant: a failed digest computation or another content tag refuses the file.
validate_download_digest(fs, s3_key, local_path, expected_size, expected_etag, hash_fails) ==
    IF ~Exists(fs, local_path) THEN FALSE
    ELSE IF SizeMismatch(StatSize(fs, local_path), expected_size) THEN FALSE
    ELSE ~hash_fails /\ expected_etag = "etag"

validate_download(fs, s3_key, local_path, expected_size, expected_etag, hash_fails) ==
    IF ~Exists(fs, local_path) THEN FALSE
    ELSE IF SizeMismatch(StatSize(fs, local_path), expected_size) THEN FALSE
    ELSE TRUE

(***************************************************************************)
(* FileDecompressor.decompress_file.  The output file is opened for        *)
(* writing (created or truncated) before the archive is read.              *)
(***************************************************************************)
\* Variant: the output is opened for appending.
OpenForAppend(fl, p) == IF p \in DOMAIN fl THEN fl ELSE WriteFile(fl, p, EmptyFile)

\* open(json_path, 'w'): the file is created, or truncated if it exists.
OpenForWrite(fl, p) == WriteFile(fl, p, EmptyFile)

\* json_file.write(text) on the file as opened: the text goes after what it holds.
WriteOpened(fl, p, text) ==
    IF fl[p] = EmptyFile THEN WriteFile(fl, p, text)
    ELSE IF text = EmptyFile THEN fl
    ELSE WriteFile(fl, p, FileOf(fl[p].size + text.size, FALSE, "unparseable"))

DecompressPathRejected(gz_path, json_path) ==
    Dangerous(Str(Resolve(gz_path))) \/ Dangerous(Str(Resolve(json_path)))

decompress_file(fs, gz_path, json_path) ==
    LET resolved_gz == Resolve(gz_path)
        resolved_json == Resolve(json_path)
    IN  IF DecompressPathRejected(gz_path, json_path)
        THEN [ret |-> FALSE, rejected |-> TRUE, files |-> fs.files, dirs |-> fs.dirs]
        ELSE LET made == Mkdir(fs.dirs, Parent(resolved_json))
             IN  IF resolved_gz \notin DOMAIN fs.files \/ resolved_json \in made
                 THEN [ret |-> FALSE, rejected |-> FALSE, files |-> fs.files, dirs |-> made]
                 ELSE LET opened == OpenForWrite(fs.files, resolved_json)
                          archive == opened[resolved_gz]
                      IN  IF archive.gz
                          THEN [ret |-> TRUE, rejected |-> FALSE,
                                files |-> WriteOpened(opened, resolved_json,
                                                      TextFile(archive.doc)),
                                dirs |-> made]
                          ELSE [ret |-> FALSE, rejected |-> FALSE,
                                files |-> opened, dirs |-> made]

(***************************************************************************)
(* FileDecompressor.validate_json.  The file is read as text: the bytes of *)
(* a gzip stream are no document.                                          *)
(***************************************************************************)
validate_json(fs, json_path) ==
    IF Resolve(json_path) \notin DOMAIN fs.files THEN FALSE
    ELSE LET file == fs.files[Resolve(json_path)]
             data == IF file.gz THEN "unparseable" ELSE file.doc
         IN  IF ~Parses(data) THEN FALSE
             ELSE IF ~IsDict(data) THEN FALSE
             ELSE IF ~HasRecords(data) THEN FALSE
             ELSE IF ~RecordsIsList(data) THEN FALSE
             ELSE TRUE

(***************************************************************************)
(* IntegrityValidator.validate_file_count.                                 *)
(***************************************************************************)
JSON_JSON == <<".json", ".json">>
JSON_GZ == <<".json", ".gz">>

\* Path.rglob('*' + ext): every file or directory below root whose name ends with ext.
RGlob(fs, root, ext) ==
    {f \in DOMAIN fs.files \cup fs.dirs :
        /\ IsRelativeTo(f, root)
        /\ f # root
        /\ EndsWith(Name(f), <<ext>>)}

RelativeKey(f, root) == Str(RelativeTo(f, root))

DerivedKey(relative_key) ==
    IF EndsWith(relative_key, JSON_JSON) THEN Replace(relative_key, JSON_JSON, JSON_GZ)
    ELSE IF EndsWith(relative_key, <<".json">>) THEN Replace(relative_key, <<".json">>, <<".gz">>)
    ELSE relative_key

S3Keys(s3_objects) == {s3_objects[i].key : i \in 1..Len(s3_objects)}

RawCount(fs, s3_objects, raw_path) ==
    IF Exists(fs, raw_path)
    THEN Cardinality({f \in RGlob(fs, Resolve(raw_path), ".gz") :
                        RelativeKey(f, Resolve(raw_path)) \in S3Keys(s3_objects)})
    ELSE 0

JsonCount(fs, s3_objects, processed_path) ==
    IF Exists(fs, processed_path)
    THEN Cardinality({f \in RGlob(fs, Resolve(processed_path), ".json") :
                        DerivedKey(RelativeKey(f, Resolve(processed_path))) \in S3Keys(s3_objects)})
    ELSE 0

validate_file_count(fs, s3_objects, raw_path, processed_path) ==
    [s3_files |-> Len(s3_objects),
     downloaded_files |-> RawCount(fs, s3_objects, raw_path),
     processed_files |-> JsonCount(fs, s3_objects, processed_path)]

(***************************************************************************)
(* IntegrityValidator.validate.  success_rate is kept exactly, as          *)
(* RateScale times the rate, RateScale being a multiple of every possible  *)
(* length of the listing.                                                  *)
(***************************************************************************)
RECURSIVE Factorial(_)
Factorial(n) == IF n <= 1 THEN 1 ELSE n * Factorial(n - 1)

RateScale == Factorial(MaxObjects)
Percent(n) == n * RateScale

\* Variant: the quotient is taken in whole numbers before it is scaled.
SuccessRateFloorDiv(processed, total_s3) ==
    IF total_s3 > 0 THEN (processed \div total_s3) * Percent(100) ELSE 0

SuccessRate(processed, total_s3) ==
    IF total_s3 > 0 THEN (processed * Percent(100)) \div total_s3 ELSE 0

Placeholders(prefix, n) == [i \in 1..n |-> [name |-> prefix, index |-> i - 1, ext |-> ".gz"]]

FailedDownloads(total_s3, downloaded) ==
    IF downloaded < total_s3 THEN Placeholders("missing_", total_s3 - downloaded) ELSE <<>>

\* Variant: one placeholder per unit of difference, whichever count is larger.
FailedDecompressionsAbs(downloaded, processed) ==
    IF processed < downloaded THEN Placeholders("failed_decomp_", downloaded - processed)
    ELSE Placeholders("failed_decomp_", processed - downloaded)

FailedDecompressions(downloaded, processed) ==
    IF processed < downloaded THEN Placeholders("failed_decomp_", downloaded - processed) ELSE <<>>

\* Variant: the raw directory is made when it is missing.
AfterValidateMkdir(fs, raw_path) == [fs EXCEPT !.dirs = Mkdir(fs.dirs, raw_path)]

\* The local directories after validate: exists, rglob and relative_to only read.
AfterValidate(fs, raw_path) == fs

validate(fs, s3_objects, raw_path, processed_path) ==
    LET counts == validate_file_count(fs, s3_objects, raw_path, processed_path)
        total_s3 == counts.s3_files
        downloaded == counts.downloaded_files
        processed == counts.processed_files
    IN  [total_s3_files |-> total_s3,
         downloaded_files |-> downloaded,
         decompressed_files |-> processed,
         validated_json_files |-> processed,
         failed_downloads |-> FailedDownloads(total_s3, downloaded),
         failed_decompressions |-> FailedDecompressions(downloaded, processed),
         failed_validations |-> <<>>,
         success_rate |-> SuccessRate(processed, total_s3)]

(***************************************************************************)
(* SecurityUtils.validate_file_path and IntegrityValidator.generate_report.*)
(***************************************************************************)
validate_file_path(file_path, base_path) ==
    LET base == Resolve(base_path)
    IN  IF file_path.abs /\ ~IsRelativeTo(file_path, base)
        THEN [ok |-> FALSE, path |-> file_path]
        ELSE LET target == IF file_path.abs THEN RelativeTo(file_path, base) ELSE file_path
                 resolved == Resolve(Join(base, target))
             IN  IF ~IsRelativeTo(resolved, base)
                 THEN [ok |-> FALSE, path |-> file_path]
                 ELSE [ok |-> TRUE, path |-> resolved]

Status(success_rate) ==
    IF success_rate = Percent(100) THEN "SUCCESS"
    ELSE IF success_rate > 0 THEN "PARTIAL_SUCCESS"
    ELSE "FAILURE"

ReportData(result) ==
    [validation_result |-> result,
     status |-> Status(result.success_rate),
     total_files_processed |-> result.validated_json_files,
     issues_found |-> Len(result.failed_downloads) + Len(result.failed_decompressions)
                        + Len(result.failed_validations)]

NoPath == MkPath(FALSE, <<<<"None">>>>)

\* The result: whether the call raised, whether the path was rejected, the path the
\* report was written to (NoPath when none was), and the filesystem after the call.
generate_report(fs, result, report_path) ==
    LET made == Mkdir(fs.dirs, Parent(report_path))
        report_data == ReportData(result)
        checked == validate_file_path(report_path, Parent(Parent(report_path)))
        validated_path == checked.path
    IN  IF ~checked.ok
        THEN [raised |-> FALSE, rejected |-> TRUE, written |-> NoPath,
              files |-> fs.files, dirs |-> made]
        ELSE IF validated_path \in made \/ Parent(validated_path) \notin made
        THEN [raised |-> TRUE, rejected |-> FALSE, written |-> NoPath,
              files |-> fs.files, dirs |-> made]
        ELSE [raised |-> FALSE, rejected |-> FALSE, written |-> validated_path,
              files |-> WriteFile(fs.files, validated_path, TextFile("dict_no_records")),
              dirs |-> made]

(***************************************************************************)
(* S3CloudTrailReader.list_objects.  A date is its day number; DateMax is  *)
(* date.max, the last day a date can hold.  The store answers the listing  *)
(* of a date with pages; a page is the sequence of the names of its        *)
(* objects, <<>> for a page without 'Contents'; the key of an object is    *)
(* the date's prefix, the number of its page (the store lists every object *)
(* once) and its name.  The answer can break off with an error raised in   *)
(* place of page number `at`.                                              *)
(***************************************************************************)
DateMax == 3
MaxPages == 2

DateRanges ==
    {[start_date |-> s, end_date |-> e] :
        s \in 1..DateMax, e \in {<<>>} \cup {<<d>> : d \in 1..DateMax}}

EndDate(s3_config) ==
    IF s3_config.end_date # <<>> THEN s3_config.end_date[1] ELSE s3_config.start_date

DatePrefix(current_date) == <<"prefix", SEP, ToString(current_date)>>

KeyDots == <<"..", SEP, "x", ".gz">>
KeyTxt == <<"digest", ".txt">>
StoreNames == {KeyA, KeyDots, KeyTxt}

QUOTE == "\""
Strip(s, c) ==
    LET from == IF Len(s) > 0 /\ s[1] = c THEN 2 ELSE 1
        to == IF Len(s) >= from /\ s[Len(s)] = c THEN Len(s) - 1 ELSE Len(s)
    IN  SubSeq(s, from, to)

StoreObject(date_prefix, page_no, name) ==
    [Key |-> date_prefix \o <<SEP, ToString(page_no), SEP>> \o name, Size |-> MaxSize,
     ETag |-> <<QUOTE, "etag", QUOTE>>, LastModified |-> "t"]

PageKinds == {<<>>, <<KeyA, KeyTxt, KeyDots>>}

RECURSIVE SeqsUpTo(_, _)
SeqsUpTo(S, n) ==
    IF n = 0 THEN {<<>>}
    ELSE LET shorter == SeqsUpTo(S, n - 1)
         IN  shorter \cup {Append(q, x) : <<q, x>> \in {t \in shorter \X S : Len(t[1]) = n - 1}}

CLIENT_ERROR == "ClientError"
LISTING_ERRORS == {CLIENT_ERROR, "EndpointConnectionError"}

\* pages holds the pages received, before the error if there is one.
Answers ==
    {[pages |-> pg, error |-> "none", at |-> Len(pg) + 1] :
        pg \in SeqsUpTo(PageKinds, MaxPages) \ {<<>>}} \cup
    {[pages |-> pg, error |-> e, at |-> Len(pg) + 1] :
        <<pg, e>> \in SeqsUpTo(PageKinds, MaxPages - 1) \X LISTING_ERRORS}

ListedDescriptor(obj) ==
    [key |-> obj.Key, size |-> obj.Size, etag |-> Strip(obj.ETag, QUOTE),
     last_modified |-> obj.LastModified]

RECURSIVE PageObjects(_, _, _)
PageObjects(date_prefix, page_no, page) ==
    IF page = <<>> THEN <<>>
    ELSE LET obj == StoreObject(date_prefix, page_no, Head(page))
             rest == PageObjects(date_prefix, page_no, Tail(page))
         IN  IF EndsWith(obj.Key, <<".gz">>) THEN <<ListedDescriptor(obj)>> \o rest
             ELSE rest

\* Variant: only the first page of a date is read.
RECURSIVE ListFirstPage(_, _, _, _)
ListFirstPage(objects, date_prefix, answer, i) ==
    IF i = answer.at \/ i > 1 THEN [objects |-> objects, error |-> answer.error]
    ELSE ListFirstPage(objects \o PageObjects(date_prefix, i, answer.pages[i]),
                       date_prefix, answer, i + 1)

\* The pages of one date, appended to objects as they arrive, up to the error.
RECURSIVE ListPages(_, _, _, _)
ListPages(objects, date_prefix, answer, i) ==
    IF i = answer.at THEN [objects |-> objects, error |-> answer.error]
    ELSE ListPages(objects \o PageObjects(date_prefix, i, answer.pages[i]), date_prefix,
                   answer, i + 1)

(***************************************************************************)
(* SecurityUtils.validate_s3_key.  A token of a key is one byte, but for   *)
(* the token "long", longer than any key may be, and "\n", a control       *)
(* character.                                                              *)
(***************************************************************************)
MaxKeyBytes == 1024

RECURSIVE ByteLen(_)
ByteLen(s) ==
    IF s = <<>> THEN 0
    ELSE (IF Head(s) = "long" THEN MaxKeyBytes + 1 ELSE 1) + ByteLen(Tail(s))

IsControl(c) == c = "\n"

validate_s3_key(s3_key) ==
    IF s3_key = <<>> \/ ByteLen(s3_key) > MaxKeyBytes THEN FALSE
    ELSE IF Contains(s3_key, DOTDOT) \/ StartsWith(s3_key, <<SEP>>) THEN FALSE
    ELSE IF \E i \in 1..Len(s3_key) : IsControl(s3_key[i]) THEN FALSE
    ELSE TRUE

(***************************************************************************)
(* State.                                                                  *)
(*   s3_objects  the authoritative listing                                 *)
(*   files, dirs the local filesystem                                      *)
(*   idx, stage  the object the run is at and the stage it is about to run *)
(*   outcome     what became of every object the run is done with          *)
(*   result      <<>> or <<the ValidationResult validate returned>>        *)
(*   report      <<>> or <<what generate_report did>>                      *)
(*   pc          "run", "validated", "reported" for a run; "api" when the  *)
(*               operations are called directly                            *)
(*   last        the last operation called: its arguments and what it did  *)
(*   calls       number of direct calls made                               *)
(*   lister      list_objects: its configuration, the date its loop is at, *)
(*               the objects collected, the dates visited, the dates whose *)
(*               listing failed, how the call ended, and the pages the     *)
(*               store gave for each date visited                          *)
(***************************************************************************)
VARIABLES s3_objects, files, dirs, idx, stage, outcome, result, report, pc, last, calls,
          lister

vars == <<s3_objects, files, dirs, idx, stage, outcome, result, report, pc, last, calls,
          lister>>

FS == [files |-> files, dirs |-> dirs]

Call(op, path, ret) ==
    [op |-> op, path |-> path, ret |-> ret, rejected |-> FALSE, raised |-> FALSE,
     attempts |-> 0, wrote |-> FALSE, actual_size |-> -1, expected_size |-> -1,
     expected_etag |-> "", hash_failed |-> FALSE, max_retries |-> -1, fails |-> -1,
     gz_path |-> NoPath, first_ret |-> FALSE, same_output |-> FALSE]

NoCall == Call("none", NoPath, FALSE)

Lister(s3_config, status) ==
    [s3_config |-> s3_config, current_date |-> s3_config.start_date, objects |-> <<>>,
     visited |-> <<>>, failed |-> {}, status |-> status, error |-> "none",
     store |-> <<>>]

NoLister == Lister([start_date |-> 1, end_date |-> <<>>], "idle")

Wrote(r) == r.files # files \/ r.dirs # dirs

\* What a fetch can leave at the destination.
Contents(sizes, docs) ==
    {FileOf(sz, TRUE, d) : <<sz, d>> \in (sizes \ {0}) \X docs} \cup
    {FileOf(sz, FALSE, "unparseable") : sz \in sizes \ {0}} \cup
    (IF 0 \in sizes THEN {EmptyFile} ELSE {})

\* In a run a fetch leaves the whole object or one byte less.
ArchiveContents == Contents({MaxSize - 1, MaxSize}, ArchiveDocs)

\* Files an earlier run can have left under the two roots.
LocalRawPath(key) == Join(RawPath, PathOf(key))
DecompressedPath(key) == Join(ProcessedPath, WithSuffix(PathOf(key), ".json"))

StaleCandidates ==
    {LocalRawPath(k) : k \in KeyUniverse} \cup {DecompressedPath(k) : k \in KeyUniverse}

StaleFile(p) ==
    IF IsRelativeTo(p, RawPath) THEN FileOf(MaxSize, TRUE, "dict_records_list")
    ELSE TextFile("dict_records_list")

StaleSets == {S \in SUBSET StaleCandidates : Cardinality(S) <= MaxStale}

InitFs(stale) ==
    /\ files = [p \in stale |-> StaleFile(p)]
    /\ dirs = {Root, CWD, LocalBase} \cup UNION {Mkdir({}, Parent(p)) : p \in stale}

Init ==
    /\ s3_objects \in Listings
    /\ \E stale \in StaleSets : InitFs(stale)
    /\ idx = 1
    /\ stage = "download"
    /\ outcome = <<>>
    /\ result = <<>>
    /\ report = <<>>
    /\ pc = "run"
    /\ last = NoCall
    /\ calls = 0
    /\ lister = NoLister

(***************************************************************************)
(* One run: every listed object in turn is downloaded, verified,           *)
(* decompressed and structurally validated, a failed stage ending the work *)
(* on that object; then the counts are reconciled and the report written.  *)
(***************************************************************************)
Finish(how) ==
    /\ outcome' = Append(outcome, how)
    /\ idx' = idx + 1
    /\ stage' = "download"

Advance(next_stage) ==
    /\ stage' = next_stage
    /\ UNCHANGED <<idx, outcome>>

Running(st) == pc = "run" /\ idx <= Len(s3_objects) /\ stage = st

DownloadStep ==
    /\ Running("download")
    /\ \E fails \in 0..DefaultMaxRetries, content \in ArchiveContents :
          LET obj == s3_objects[idx]
              r == download_file(FS, obj.key, LocalRawPath(obj.key), DefaultMaxRetries,
                                 fails, content)
          IN  /\ files' = r.files
              /\ dirs' = r.dirs
              /\ last' = [Call("download_file", LocalRawPath(obj.key), r.ret) EXCEPT
                             !.rejected = r.rejected, !.attempts = r.attempts,
                             !.wrote = Wrote(r)]
              /\ IF r.ret THEN Advance("verify") ELSE Finish("download_failed")
    /\ UNCHANGED <<s3_objects, result, report, pc, calls, lister>>

ActualSize(fs, p) == IF Exists(fs, p) THEN StatSize(fs, p) ELSE -1

VerifyStep ==
    /\ Running("verify")
    /\ \E hash_fails \in BOOLEAN :
          LET obj == s3_objects[idx]
              ret == validate_download(FS, obj.key, LocalRawPath(obj.key), obj.size,
                                       obj.etag, hash_fails)
          IN  /\ last' = [Call("validate_download", LocalRawPath(obj.key), ret) EXCEPT
                             !.actual_size = ActualSize(FS, LocalRawPath(obj.key)),
                             !.expected_size = obj.size, !.expected_etag = obj.etag,
                             !.hash_failed = hash_fails]
              /\ IF ret THEN Advance("decompress") ELSE Finish("verify_failed")
    /\ UNCHANGED <<s3_objects, files, dirs, result, report, pc, calls, lister>>

DecompressStep ==
    /\ Running("decompress")
    /\ LET obj == s3_objects[idx]
           r == decompress_file(FS, LocalRawPath(obj.key), DecompressedPath(obj.key))
       IN  /\ files' = r.files
           /\ dirs' = r.dirs
           /\ last' = [Call("decompress_file", DecompressedPath(obj.key), r.ret) EXCEPT
                          !.rejected = r.rejected, !.wrote = Wrote(r)]
           /\ IF r.ret THEN Advance("validate_json") ELSE Finish("decompress_failed")
    /\ UNCHANGED <<s3_objects, result, report, pc, calls, lister>>

ValidateJsonStep ==
    /\ Running("validate_json")
    /\ LET obj == s3_objects[idx]
           ret == validate_json(FS, DecompressedPath(obj.key))
       IN  /\ last' = Call("validate_json", DecompressedPath(obj.key), ret)
           /\ IF ret THEN Finish("ok") ELSE Finish("invalid_json")
    /\ UNCHANGED <<s3_objects, files, dirs, result, report, pc, calls, lister>>

ValidateStep ==
    /\ pc = "run"
    /\ idx > Len(s3_objects)
    /\ result' = <<validate(FS, s3_objects, RawPath, ProcessedPath)>>
    /\ pc' = "validated"
    /\ files' = AfterValidate(FS, RawPath).files
    /\ dirs' = AfterValidate(FS, RawPath).dirs
    /\ last' = [Call("validate", NoPath, TRUE) EXCEPT !.wrote = Wrote(AfterValidate(FS, RawPath))]
    /\ UNCHANGED <<s3_objects, idx, stage, outcome, report, calls, lister>>

ReportPaths ==
    {PathOf(<<SEP, "data", SEP, "reports", SEP, "r", ".json">>),
     PathOf(<<SEP, "data", SEP, "new", SEP, "..", SEP, "..", SEP, "r", ".json">>),
     PathOf(<<SEP, "data", SEP, "..", SEP, "tmp", SEP, "reports", SEP, "r", ".json">>),
     PathOf(<<"out", SEP, "..", SEP, "r", ".json">>),
     PathOf(<<"out", SEP, "reports", SEP, "r", ".json">>)}

Reported(g, res, report_path) ==
    [path |-> report_path, data |-> ReportData(res), given |-> res,
     raised |-> g.raised, rejected |-> g.rejected, written |-> g.written]

ReportStep ==
    /\ pc = "validated"
    /\ \E report_path \in ReportPaths :
          LET g == generate_report(FS, result[1], report_path)
          IN  /\ files' = g.files
              /\ dirs' = g.dirs
              /\ report' = <<Reported(g, result[1], report_path)>>
              /\ last' = [Call("generate_report", report_path, ~g.raised) EXCEPT
                             !.rejected = g.rejected, !.raised = g.raised,
                             !.wrote = Wrote(g)]
    /\ pc' = "reported"
    /\ UNCHANGED <<s3_objects, idx, stage, outcome, result, calls, lister>>

Next ==
    \/ DownloadStep
    \/ VerifyStep
    \/ DecompressStep
    \/ ValidateJsonStep
    \/ ValidateStep
    \/ ReportStep

Spec == Init /\ [][Next]_vars

(***************************************************************************)
(* The operations called directly, with arguments of the caller's choice.  *)
(***************************************************************************)
ApiPaths ==
    {LocalRawPath(KeyA),
     DecompressedPath(KeyA),
     PathOf(<<SEP, "data", SEP, "raw", SEP, "..", SEP, "..", SEP, "tmp", SEP, "x", ".gz">>),
     PathOf(<<SEP, "data", SEP, "raw", SEP, "..", SEP, "..", SEP, "etc", SEP, "cron", SEP,
              "x", ".gz">>)}

ApiInit ==
    /\ s3_objects = <<Descriptor(KeyA)>>
    /\ \E stale \in StaleSets : InitFs(stale)
    /\ idx = 1
    /\ stage = "download"
    /\ outcome = <<>>
    /\ result = <<>>
    /\ report = <<>>
    /\ pc = "api"
    /\ last = NoCall
    /\ calls = 0
    /\ lister = NoLister

Calling ==
    /\ pc = "api"
    /\ calls < MaxCalls
    /\ calls' = calls + 1
    /\ UNCHANGED <<s3_objects, idx, stage, outcome, pc, lister>>

CallDownloadFile ==
    /\ Calling
    /\ \E local_path \in ApiPaths, fails \in 0..DefaultMaxRetries,
          content \in Contents(0..MaxSize, ArchiveDocs) :
          LET r == download_file(FS, KeyA, local_path, DefaultMaxRetries, fails, content)
          IN  /\ files' = r.files
              /\ dirs' = r.dirs
              /\ last' = [Call("download_file", local_path, r.ret) EXCEPT
                             !.rejected = r.rejected, !.attempts = r.attempts,
                             !.wrote = Wrote(r), !.max_retries = DefaultMaxRetries,
                             !.fails = fails]
    /\ UNCHANGED <<result, report>>

CallValidateDownload ==
    /\ Calling
    /\ \E local_path \in ApiPaths \cup {RawPath}, expected_size \in 0..MaxSize,
          expected_etag \in {"etag", "other"}, hash_fails \in BOOLEAN :
          LET ret == validate_download(FS, KeyA, local_path, expected_size, expected_etag,
                                       hash_fails)
          IN  last' = [Call("validate_download", local_path, ret) EXCEPT
                          !.actual_size = ActualSize(FS, local_path),
                          !.expected_size = expected_size,
                          !.expected_etag = expected_etag,
                          !.hash_failed = hash_fails]
    /\ UNCHANGED <<files, dirs, result, report>>

CallDecompressFile ==
    /\ Calling
    /\ \E gz_path \in ApiPaths, json_path \in ApiPaths :
          LET r == decompress_file(FS, gz_path, json_path)
          IN  /\ files' = r.files
              /\ dirs' = r.dirs
              /\ last' = [Call("decompress_file", json_path, r.ret) EXCEPT
                             !.rejected = r.rejected, !.wrote = Wrote(r),
                             !.gz_path = gz_path]
    /\ UNCHANGED <<result, report>>

\* What a path holds: <<>> or <<the content of the file>>.
Output(fl, p) == IF Resolve(p) \in DOMAIN fl THEN <<fl[Resolve(p)]>> ELSE <<>>

\* The decompress_file call made last, made once more with the same arguments.
CallDecompressFileAgain ==
    /\ pc = "api"
    /\ calls = MaxCalls
    /\ last.op = "decompress_file"
    /\ LET r == decompress_file(FS, last.gz_path, last.path)
       IN  /\ files' = r.files
           /\ dirs' = r.dirs
           /\ last' = [last EXCEPT
                          !.op = "decompress_file_again", !.ret = r.ret,
                          !.rejected = r.rejected, !.wrote = Wrote(r),
                          !.first_ret = last.ret,
                          !.same_output = (Output(r.files, last.path) =
                                           Output(files, last.path))]
    /\ UNCHANGED <<s3_objects, idx, stage, outcome, result, report, pc, calls, lister>>

CallValidateJson ==
    /\ Calling
    /\ \E json_path \in ApiPaths :
          last' = Call("validate_json", json_path, validate_json(FS, json_path))
    /\ UNCHANGED <<files, dirs, result, report>>

CallValidate ==
    /\ Calling
    /\ result' = <<validate(FS, s3_objects, RawPath, ProcessedPath)>>
    /\ files' = AfterValidate(FS, RawPath).files
    /\ dirs' = AfterValidate(FS, RawPath).dirs
    /\ last' = [Call("validate", NoPath, TRUE) EXCEPT !.wrote = Wrote(AfterValidate(FS, RawPath))]
    /\ UNCHANGED report

\* validate called last, called once more on the same validator.
CallValidateAgain ==
    /\ pc = "api"
    /\ calls = MaxCalls
    /\ last.op = "validate"
    /\ LET again == validate(FS, s3_objects, RawPath, ProcessedPath)
       IN  /\ result' = <<again>>
           /\ files' = AfterValidate(FS, RawPath).files
           /\ dirs' = AfterValidate(FS, RawPath).dirs
           /\ last' = [last EXCEPT
                          !.op = "validate_again",
                          !.wrote = last.wrote \/ Wrote(AfterValidate(FS, RawPath)),
                          !.same_output = (<<again>> = result)]
    /\ UNCHANGED <<s3_objects, idx, stage, outcome, report, pc, calls, lister>>

CallGenerateReport ==
    /\ Calling
    /\ \E report_path \in ReportPaths :
          LET res == validate(FS, s3_objects, RawPath, ProcessedPath)
              g == generate_report(FS, res, report_path)
          IN  /\ files' = g.files
              /\ dirs' = g.dirs
              /\ result' = <<res>>
              /\ report' = <<Reported(g, res, report_path)>>
              /\ last' = [Call("generate_report", report_path, ~g.raised) EXCEPT
                             !.rejected = g.rejected, !.raised = g.raised,
                             !.wrote = Wrote(g)]

ApiNext ==
    \/ CallDownloadFile
    \/ CallValidateDownload
    \/ CallDecompressFile
    \/ CallDecompressFileAgain
    \/ CallValidateJson
    \/ CallValidate
    \/ CallValidateAgain
    \/ CallGenerateReport

ApiSpec == ApiInit /\ [][ApiNext]_vars

(***************************************************************************)
(* download_file called with a retry bound of the caller's choice.         *)
(***************************************************************************)
CallDownloadFileRetries ==
    /\ Calling
    /\ \E local_path \in ApiPaths, max_retries \in {0, 1, DefaultMaxRetries},
          content \in Contents({MaxSize}, {"dict_records_list"}) :
       \E fails \in 0..max_retries :
          LET r == download_file(FS, KeyA, local_path, max_retries, fails, content)
          IN  /\ files' = r.files
              /\ dirs' = r.dirs
              /\ last' = [Call("download_file", local_path, r.ret) EXCEPT
                             !.rejected = r.rejected, !.attempts = r.attempts,
                             !.wrote = Wrote(r), !.max_retries = max_retries,
                             !.fails = fails]
    /\ UNCHANGED <<result, report>>

RetryNext == CallDownloadFileRetries

RetrySpec == ApiInit /\ [][RetryNext]_vars

(***************************************************************************)
(* validate_json called on what the local directories can hold: a document *)
(* of any shape, an archive, a directory, nothing.                         *)
(***************************************************************************)
JsonInit ==
    /\ s3_objects = <<Descriptor(KeyA)>>
    /\ \E stale \in StaleSets, d \in JsonDocs :
          /\ files = [p \in stale |-> IF IsRelativeTo(p, RawPath) THEN StaleFile(p)
                                      ELSE TextFile(d)]
          /\ dirs = {Root, CWD, LocalBase} \cup UNION {Mkdir({}, Parent(p)) : p \in stale}
    /\ idx = 1
    /\ stage = "download"
    /\ outcome = <<>>
    /\ result = <<>>
    /\ report = <<>>
    /\ pc = "api"
    /\ last = NoCall
    /\ calls = 0
    /\ lister = NoLister

JsonPaths == StaleCandidates \cup {ProcessedPath}

CallValidateJsonAny ==
    /\ Calling
    /\ \E json_path \in JsonPaths :
          last' = Call("validate_json", json_path, validate_json(FS, json_path))
    /\ UNCHANGED <<files, dirs, result, report>>

JsonNext == CallValidateJsonAny

JsonSpec == JsonInit /\ [][JsonNext]_vars

(***************************************************************************)
(* list_objects, one turn of its date loop at a time.                      *)
(***************************************************************************)
ListInit ==
    /\ s3_objects = <<>>
    /\ InitFs({})
    /\ idx = 1
    /\ stage = "download"
    /\ outcome = <<>>
    /\ result = <<>>
    /\ report = <<>>
    /\ pc = "list"
    /\ last = NoCall
    /\ calls = 0
    /\ \E s3_config \in DateRanges : lister = Lister(s3_config, "loop")

Listing == pc = "list" /\ lister.status = "loop"

\* One date: its pages are listed, a ClientError is logged, the date is advanced.
ListDate ==
    /\ Listing
    /\ lister.current_date <= EndDate(lister.s3_config)
    /\ \E answer \in Answers :
          LET current_date == lister.current_date
              r == ListPages(lister.objects, DatePrefix(current_date), answer, 1)
              seen == [lister EXCEPT !.objects = r.objects,
                                     !.visited = Append(@, current_date),
                                     !.store = Append(@, answer.pages),
                                     !.failed = IF r.error = "none" THEN @
                                                ELSE @ \cup {current_date}]
          IN  lister' =
                 IF r.error \notin {"none", CLIENT_ERROR}
                 THEN [seen EXCEPT !.status = "raised", !.error = r.error]
                 ELSE IF current_date = DateMax
                 THEN [seen EXCEPT !.status = "raised", !.error = "OverflowError"]
                 ELSE [seen EXCEPT !.current_date = current_date + 1]
    /\ UNCHANGED <<s3_objects, files, dirs, idx, stage, outcome, result, report, pc, last,
                   calls>>

ListReturn ==
    /\ Listing
    /\ lister.current_date > EndDate(lister.s3_config)
    /\ lister' = [lister EXCEPT !.status = "returned"]
    /\ s3_objects' = lister.objects
    /\ UNCHANGED <<files, dirs, idx, stage, outcome, result, report, pc, last, calls>>

ListNext ==
    \/ ListDate
    \/ ListReturn

ListSpec == ListInit /\ [][ListNext]_vars

(***************************************************************************)
(* Properties.                                                             *)
(***************************************************************************)
Validated == result # <<>>
Res == result[1]
Rep == report[1]
Count(how) == Cardinality({i \in 1..Len(outcome) : outcome[i] = how})

\* C1: in every ValidationResult validate returns,
\* 0 <= validated_json_files <= decompressed_files <= downloaded_files <= total_s3_files.
C1_CountChain ==
    Validated =>
        /\ 0 <= Res.validated_json_files
        /\ Res.validated_json_files <= Res.decompressed_files
        /\ Res.decompressed_files <= Res.downloaded_files
        /\ Res.downloaded_files <= Res.total_s3_files

C3_NothingLost ==
    Validated =>
        Res.total_s3_files =
            Res.validated_json_files + Len(Res.failed_downloads)
            + Len(Res.failed_decompressions) + Len(Res.failed_validations)

\* C4: when every object of a non-empty listing was downloaded, decompressed and passed
\* structural validation, the report says SUCCESS, success_rate is 100 and the three
\* failure lists are empty.
C4_AllSucceeded ==
    (/\ report # <<>>
     /\ Len(s3_objects) > 0
     /\ Count("ok") = Len(s3_objects)) =>
        /\ Rep.data.status = "SUCCESS"
        /\ Rep.given.success_rate = Percent(100)
        /\ Rep.given.failed_downloads = <<>>
        /\ Rep.given.failed_decompressions = <<>>
        /\ Rep.given.failed_validations = <<>>

\* C5: when k of the n listed objects exhausted their download retries in this run and
\* the others were downloaded, downloaded_files = n - k, failed_downloads has k entries
\* and success_rate <= (n - k) / n * 100, whatever the directories held before.
C5_FailedDownloadsCounted ==
    Validated =>
        LET n == Len(s3_objects)
            k == Count("download_failed")
        IN  /\ Res.downloaded_files = n - k
            /\ Len(Res.failed_downloads) = k
            /\ Res.success_rate * n <= (n - k) * Percent(100)

\* C6: every object that failed structural validation is in failed_validations and is
\* not counted in validated_json_files.
C6_InvalidJsonCounted ==
    (Validated /\ Count("invalid_json") > 0) =>
        /\ Len(Res.failed_validations) >= Count("invalid_json")
        /\ Res.validated_json_files <= Len(s3_objects) - Count("invalid_json")

\* C7: the status is SUCCESS exactly when success_rate = 100, PARTIAL_SUCCESS exactly
\* when 0 < success_rate < 100, FAILURE exactly when success_rate = 0.
C7_StatusClasses ==
    report # <<>> =>
        LET rate == Rep.given.success_rate
            status == Rep.data.status
        IN  /\ status = "SUCCESS" <=> rate = Percent(100)
            /\ status = "PARTIAL_SUCCESS" <=> (0 < rate /\ rate < Percent(100))
            /\ status = "FAILURE" <=> rate = 0

HasDotDot(p) == \E i \in 1..Len(p.parts) : p.parts[i] = DOTDOT

\* C8: download_file, decompress_file and generate_report reject a path with ".."
\* segments that resolves outside the configured root, and have then written nothing,
\* not even a directory.
C8_TraversalRejectedBeforeWrite ==
    (/\ last.op \in {"download_file", "decompress_file", "generate_report"}
     /\ HasDotDot(last.path)
     /\ ~IsRelativeTo(Resolve(last.path), LocalBase)) =>
        /\ last.rejected
        /\ ~last.wrote

\* The root generate_report approves for a report path.
ApprovedRoot(report_path) == Resolve(Parent(Parent(report_path)))

\* C9: when the report path resolves outside the approved root, generate_report writes
\* no report file, does not raise, and the ValidationResult is unchanged.
C9_ReportOutsideRootNotWritten ==
    (/\ report # <<>>
     /\ ~IsRelativeTo(Resolve(Rep.path), ApprovedRoot(Rep.path))) =>
        /\ Rep.written = NoPath
        /\ ~Rep.raised
        /\ result = <<Rep.given>>

\* C10: validate_download never returns true for a local file whose size differs from
\* the listed size, whatever the content tag and whether or not the digest computation
\* fails.
C10_SizeMismatchNeverVerified ==
    (/\ last.op = "validate_download"
     /\ last.actual_size >= 0
     /\ last.actual_size # last.expected_size) =>
        ~last.ret

\* C10 witness: a file of the wrong size was checked and refused.
C10_MismatchRefused ==
    /\ last.op = "validate_download"
    /\ last.actual_size > 0
    /\ last.actual_size # last.expected_size
    /\ last.hash_failed
    /\ ~last.ret

\* The dates from a to b, one per day, ascending.
DatesFromTo(a, b) == [i \in 1..(b - a + 1) |-> a + i - 1]

StartDate == lister.s3_config.start_date
ListOver == pc = "list" /\ lister.status \in {"returned", "raised"}
Listed == pc = "list" /\ lister.status = "returned"

\* C11: for start <= end (end defaulting to start), the date loop of list_objects has
\* visited, when the call is over, exactly the (end - start).days + 1 dates from start
\* to end, ascending, one per day, without gap or duplicate.
C11_DateLoopVisitsRange ==
    (ListOver /\ StartDate <= EndDate(lister.s3_config)) =>
        lister.visited = DatesFromTo(StartDate, EndDate(lister.s3_config))

\* C12: for start > end list_objects fails with InvalidDateRange and never returns a
\* listing.
C12_InvalidDateRange ==
    (pc = "list" /\ StartDate > EndDate(lister.s3_config) /\ lister.status # "loop") =>
        /\ lister.status = "raised"
        /\ lister.error = "InvalidDateRange"

\* C13: when the listing of a date failed, list_objects is not aborted: every date of
\* the range is listed and the call returns a listing.
C13_ListingFailureSkipsDate ==
    (ListOver /\ lister.failed # {} /\ EndDate(lister.s3_config) < DateMax) =>
        /\ lister.status = "returned"
        /\ lister.visited = DatesFromTo(StartDate, EndDate(lister.s3_config))

\* C14: a date whose listing failed contributes no object to the listing returned.
C14_FailedDateContributesNothing ==
    Listed =>
        \A d \in lister.failed : \A i \in 1..Len(lister.objects) :
            ~StartsWith(lister.objects[i].key, DatePrefix(d) \o <<SEP>>)

\* C20: every descriptor list_objects returns has a key validate_s3_key accepts.
C20_ListedKeysValidated ==
    Listed => \A i \in 1..Len(lister.objects) : validate_s3_key(lister.objects[i].key)

\* C15: a download_file call whose path check passed made at least 1 and at most
\* max_retries fetch attempts, none after the first that succeeded, returned true iff
\* one of them succeeded, and did not raise; for every max_retries.
C15_BoundedAttempts ==
    (last.op = "download_file" /\ last.max_retries >= 0 /\ ~last.rejected) =>
        /\ 1 <= last.attempts
        /\ last.attempts <= last.max_retries
        /\ last.attempts <= last.fails + 1
        /\ last.ret <=> last.attempts = last.fails + 1
        /\ ~last.raised

\* C16: when every listed object failed in the run (every download exhausted its
\* retries, or every decompression failed), the run has returned a ValidationResult
\* and the status of the report is FAILURE.
C16_AllFailedIsFailure ==
    (/\ report # <<>>
     /\ Len(s3_objects) > 0
     /\ \/ Count("download_failed") = Len(s3_objects)
        \/ Count("decompress_failed") = Len(s3_objects)) =>
        /\ Validated
        /\ Rep.data.status = "FAILURE"

\* C17: decompress_file called a second time with the same archive and the same target
\* returns what the first call returned and leaves the output the first call left.
C17_DecompressIdempotent ==
    last.op = "decompress_file_again" =>
        /\ last.ret = last.first_ret
        /\ last.same_output

\* C17 witness: an archive was expanded twice, giving the same non-empty output.
C17_ExpandedTwice ==
    /\ last.op = "decompress_file_again"
    /\ last.ret
    /\ last.first_ret
    /\ last.same_output
    /\ Output(files, last.path) # <<>>
    /\ Output(files, last.path) # <<EmptyFile>>
    /\ Resolve(last.gz_path) # Resolve(last.path)

\* C18: after validate_download refused a file for its size, the local copy is gone
\* from the raw root and validate does not count the object in downloaded_files.
C18_UnverifiedCopyDiscarded ==
    (/\ last.op = "validate_download"
     /\ last.actual_size >= 0
     /\ last.actual_size # last.expected_size
     /\ ~last.ret) =>
        /\ ~Exists(FS, last.path)
        /\ last.path = LocalRawPath(KeyA) =>
              validate(FS, s3_objects, RawPath, ProcessedPath).downloaded_files = 0

\* C19: an object whose decompression failed is recorded as failed and is not counted
\* in decompressed_files or validated_json_files, whatever the failed call left at the
\* target path.
C19_FailedDecompressionNotCounted ==
    (Validated /\ Count("decompress_failed") > 0) =>
        /\ Res.decompressed_files <= Len(s3_objects) - Count("decompress_failed")
        /\ Res.validated_json_files <= Len(s3_objects) - Count("decompress_failed")
        /\ Len(Res.failed_decompressions) >= Count("decompress_failed")

\* The keys of the objects the store holds under the prefixes of the dates visited.
StoreKeys ==
    {StoreObject(DatePrefix(lister.visited[n]), i, lister.store[n][i][j]).Key :
        <<n, i, j>> \in {t \in (1..Len(lister.store)) \X (1..MaxPages) \X (1..Cardinality(StoreNames)) :
                            /\ t[2] <= Len(lister.store[t[1]])
                            /\ t[3] <= Len(lister.store[t[1]][t[2]])}}

\* The place in the range of the date whose prefix a key lies under.
DateIndex(key) ==
    CHOOSE n \in 1..Len(lister.visited) :
        StartsWith(key, DatePrefix(lister.visited[n]) \o <<SEP>>)

\* C21: when no listing call failed, list_objects returns exactly the objects of the
\* store that lie under the prefix of a date of the range and end with .gz: every one
\* of every page, no other, each once, those of an earlier date first.
C21_ListingIsStoreContent ==
    (Listed /\ lister.failed = {}) =>
        LET objects == lister.objects
            n == Len(objects)
        IN  /\ lister.visited =
                  DatesFromTo(StartDate, EndDate(lister.s3_config))
            /\ {objects[i].key : i \in 1..n} = {k \in StoreKeys : EndsWith(k, <<".gz">>)}
            /\ \A i, j \in 1..n : objects[i].key = objects[j].key => i = j
            /\ \A i, j \in 1..n : i < j => DateIndex(objects[i].key) <= DateIndex(objects[j].key)
            /\ \A i \in 1..n : /\ objects[i].size = MaxSize
                               /\ objects[i].etag = <<"etag">>

\* C21 witness: a listing of two dates, one of them with objects on two pages.
C21_TwoDatesTwoPages ==
    /\ Listed
    /\ lister.failed = {}
    /\ Len(lister.visited) >= 2
    /\ \E n \in 1..Len(lister.store) :
          /\ Len(lister.store[n]) = MaxPages
          /\ \A i \in 1..MaxPages : lister.store[n][i] # <<>>
    /\ Len(lister.objects) > MaxPages

\* The local files of the listed keys: the raw file and the decompressed file of each.
ListedPaths(objects) ==
    {Resolve(LocalRawPath(k)) : k \in S3Keys(objects)} \cup
    {Resolve(DecompressedPath(k)) : k \in S3Keys(objects)}

\* The filesystem without the files of keys that are not listed.
WithoutUnlisted(fs, objects) ==
    [fs EXCEPT !.files = [f \in DOMAIN fs.files \cap ListedPaths(objects) |-> fs.files[f]]]

\* The files under a root that validate_file_count counts for a key.
CountedFor(fs, root, ext, key) ==
    {f \in RGlob(fs, Resolve(root), ext) :
        LET relative_key == RelativeKey(f, Resolve(root))
        IN  (IF ext = ".json" THEN DerivedKey(relative_key) ELSE relative_key) = key}

\* C22: files of keys that are not listed do not influence validate (without them it
\* returns the same ValidationResult), and every listed key counts at most once in
\* downloaded_files and at most once in decompressed_files.
C22_UnlistedFilesIgnored ==
    Validated =>
        /\ Res = validate(WithoutUnlisted(FS, s3_objects), s3_objects, RawPath, ProcessedPath)
        /\ \A k \in S3Keys(s3_objects) :
              /\ Cardinality(CountedFor(FS, RawPath, ".gz", k)) <= 1
              /\ Cardinality(CountedFor(FS, ProcessedPath, ".json", k)) <= 1

\* The documents that are a keyed mapping whose 'Records' is a sequence.
RecordContainers == {"dict_records_empty", "dict_records_list"}

\* C23: validate_json returns true exactly when the file holds a document that parses,
\* is a keyed mapping and has a 'Records' field that is a sequence, possibly empty; for
\* anything else, what cannot be read or parsed included, it returns false; it does not
\* raise.
C23_ValidateJsonIff ==
    last.op = "validate_json" =>
        /\ last.ret <=> \E d \in RecordContainers : Output(files, last.path) = <<TextFile(d)>>
        /\ ~last.raised

\* C23 witness: a mapping whose 'Records' is the empty sequence was accepted.
C23_EmptyRecordsAccepted ==
    /\ last.op = "validate_json"
    /\ last.ret
    /\ Output(files, last.path) = <<TextFile("dict_records_empty")>>

\* C24: validate_download returns true exactly when the local path exists and its size
\* equals the listed size; neither the content tag handed in nor a failing digest
\* computation changes the answer.
C24_ExistsAndSizeOnly ==
    last.op = "validate_download" =>
        (last.ret <=> (Exists(FS, last.path) /\ last.actual_size = last.expected_size))

\* C24 witness: a file of the listed size was verified although its digest could not be
\* computed and the content tag was another.
C24_VerifiedWithoutDigest ==
    /\ last.op = "validate_download"
    /\ Resolve(last.path) \in DOMAIN files
    /\ last.actual_size = last.expected_size
    /\ last.hash_failed
    /\ last.expected_etag = "other"
    /\ last.ret

\* C25: in every ValidationResult, failed_downloads has max(0, total_s3_files -
\* downloaded_files) entries, failed_decompressions has max(0, downloaded_files -
\* decompressed_files) entries and failed_validations is empty; issues_found of the
\* report is the sum of the three lengths.
C25_FailureListSizes ==
    /\ Validated =>
          LET missing == Res.total_s3_files - Res.downloaded_files
              undone == Res.downloaded_files - Res.decompressed_files
          IN  /\ Len(Res.failed_downloads) = (IF missing > 0 THEN missing ELSE 0)
              /\ Len(Res.failed_decompressions) = (IF undone > 0 THEN undone ELSE 0)
              /\ Res.failed_validations = <<>>
    /\ report # <<>> =>
          Rep.data.issues_found =
              Len(Rep.given.failed_downloads) + Len(Rep.given.failed_decompressions)
                  + Len(Rep.given.failed_validations)

\* C25 witness: the report of a run with a missing download and more decompressed than
\* downloaded files: the first is an issue, the second is clamped to none.
C25_IssuesReported ==
    /\ report # <<>>
    /\ Rep.given = Res
    /\ Res.failed_downloads # <<>>
    /\ Res.decompressed_files > Res.downloaded_files
    /\ Rep.data.issues_found = Len(Res.failed_downloads)

\* C26: when the resolved destination of download_file contains one of the system
\* directory names, the call returns false after no fetch attempt and creates neither a
\* directory nor a file: the check comes before the parent is made and before the retry
\* loop.
C26_RejectedBeforeAnyEffect ==
    (/\ last.op = "download_file"
     /\ Dangerous(Str(Resolve(last.path)))) =>
        /\ last.rejected
        /\ ~last.ret
        /\ last.attempts = 0
        /\ ~last.wrote

\* C26 witness: a destination under /etc/ was refused although its first fetch would have
\* succeeded, and its parent directory does not exist.
C26_SystemPathRefused ==
    /\ last.op = "download_file"
    /\ last.rejected
    /\ last.fails = 0
    /\ ~last.ret
    /\ Parent(Resolve(last.path)) \notin dirs

====
